---- MODULE Spec2Model ----
(***************************************************************************)
(* Model of backend/core/story_generator.py (class StoryGenerator).        *)
(*                                                                         *)
(* A Python str is a sequence of one-character strings; indices are        *)
(* 1-based here and 0-based in the source (start_idx = 0 stands for the    *)
(* source's -1, "not found").  The only sequences whose elements are       *)
(* longer than one character are the messages of exceptions and the text   *)
(* built from them: they are never scanned, parsed or sliced.              *)
(***************************************************************************)
EXTENDS Integers, Sequences, FiniteSets, TLC

VARIABLES
    pc,              \* position of the call being modelled
    text,            \* argument of _extract_json
    extract_result,  \* outcome of _extract_json: [raised, val]
    theme,           \* argument of generate_story
    session_id,      \* argument of generate_story
    response,        \* what requests.post and response.json() produce
    api_result,      \* outcome of _call_gemini_api: [raised, val]
    outcome,         \* the branch of lines 134-182 that built story_structure
    story_structure, \* the description built by lines 134-182
    story_rows,      \* Story rows of the session, by id
    node_rows,       \* StoryNode rows of the session, by id
    durable,         \* the rows as of the last commit
    commits,         \* db.commit() calls of this run
    stack,           \* the active calls of _process_story_node
    story_db         \* id of the Story row of this run, 0 before it exists

extractVars == <<text, extract_result>>
callVars == <<theme, session_id, response>>
dbVars == <<story_rows, node_rows, durable, commits, stack, story_db>>
vars == <<pc, extractVars, callVars, api_result, outcome, story_structure, dbVars>>

(***************************************************************************)
(* Bounds of the inputs.                                                   *)
(***************************************************************************)
MaxLen == 5          \* every text of at most MaxLen characters is an input
MaxKey == 3          \* free characters inside the quoted key of a template
MaxNodes == 3        \* node descriptions in a schema-valid answer
MaxShort == 2        \* every answer of at most MaxShort characters is an input

None == [none |-> TRUE]

Min(S) == CHOOSE x \in S : \A y \in S : x <= y

(***************************************************************************)
(* str.find(c): the first index of c in s, 0 when there is none.           *)
(***************************************************************************)
Find(s, c) ==
    IF \E i \in 1..Len(s) : s[i] = c
    THEN CHOOSE i \in 1..Len(s) : s[i] = c /\ \A j \in 1..(i - 1) : s[j] # c
    ELSE 0

(***************************************************************************)
(* json.loads, restricted to what the alphabets of this model can spell.   *)
(* Values are tagged records:                                              *)
(*   [t |-> "str", s |-> chars]   [t |-> "num", lex |-> chars]             *)
(*   [t |-> "lit", name |-> "true" | "false" | "null" | "NaN"]             *)
(*   [t |-> "arr", items |-> seq]  [t |-> "obj", members |-> seq of [k, v]]*)
(* Every parser returns [ok, val, next]: next is the index after the       *)
(* value.  Strings, numbers and white space are delimited without          *)
(* recursion, so the recursion depth is the nesting depth of the document. *)
(***************************************************************************)
JsonWs == {" ", "\t", "\n", "\r"}
Digits == {"0", "1", "2", "3", "4", "5", "6", "7", "8", "9"}
HexDigits == Digits \cup {"a", "b", "c", "d", "e", "f", "A", "B", "C", "D", "E", "F"}
SimpleEscapes == {"\"", "\\", "/", "b", "f", "n", "r", "t"}

Fail == [ok |-> FALSE, val |-> None, next |-> 0]

\* The first index >= i of s whose character is not in the set C (Len(s)+1 if none).
RECURSIVE SkipWhile(_, _, _)
SkipWhile(s, i, C) ==
    IF i <= Len(s) /\ s[i] \in C THEN SkipWhile(s, i + 1, C) ELSE i

SkipWs(s, i) == SkipWhile(s, i, JsonWs)

\* The number of consecutive backslashes that end right before index p and
\* start no earlier than index lo.
RECURSIVE BackslashRun(_, _, _)
BackslashRun(s, lo, p) ==
    IF p > lo /\ s[p - 1] = "\\" THEN 1 + BackslashRun(s, lo, p - 1) ELSE 0

\* s[p] is consumed by a backslash escape that starts at p-1.
Escaped(s, lo, p) == BackslashRun(s, lo, p) % 2 = 1

\* py_scanstring, once the closing quote is known to be at index j: the
\* escapes are checked and the characters between i and j decoded.
StringBody(s, i, j) ==
    LET EscStarts == {p \in i..(j - 1) : s[p] = "\\" /\ ~Escaped(s, i, p)}
        EscOk(p) ==
            \/ s[p + 1] \in SimpleEscapes
            \/ /\ s[p + 1] = "u"
               /\ p + 5 < j
               /\ \A m \in 2..5 : s[p + m] \in HexDigits
        \* the positions at which a decoded character starts
        Covered(q) ==
            \E p \in EscStarts :
                \/ q = p + 1
                \/ s[p + 1] = "u" /\ q \in (p + 2)..(p + 5)
        Units == {q \in i..(j - 1) : ~Covered(q)}
        Nth(k) == CHOOSE q \in Units : Cardinality({r \in Units : r < q}) = k - 1
        Control == {q \in i..(j - 1) : s[q] \in {"\t", "\n", "\r"}}
        Decode(q) ==
            IF q \notin EscStarts THEN s[q]
            ELSE CASE s[q + 1] = "\"" -> "\""
                   [] s[q + 1] = "\\" -> "\\"
                   [] s[q + 1] = "/" -> "/"
                   [] s[q + 1] = "n" -> "\n"
                   [] s[q + 1] = "t" -> "\t"
                   [] s[q + 1] = "r" -> "\r"
                   [] OTHER -> "?"       \* \b, \f, \uXXXX: one character
    IN  IF Control # {} \/ \E p \in EscStarts : ~EscOk(p) THEN Fail
        ELSE IF EscStarts = {}
             THEN [ok |-> TRUE, next |-> j + 1,
                   val |-> [t |-> "str", s |-> SubSeq(s, i, j - 1)]]
             ELSE [ok |-> TRUE, next |-> j + 1,
                   val |-> [t |-> "str",
                            s |-> [k \in 1..Cardinality(Units) |-> Decode(Nth(k))]]]

\* s[j] is a quote that no backslash escapes, in the string that starts at i.
Closes(s, i, j) == s[j] = "\"" /\ ~Escaped(s, i, j)

\* py_scanstring: the string whose opening quote is at i-1.
ParseString(s, i) ==
    IF ~\E j \in i..Len(s) : Closes(s, i, j) THEN Fail
    ELSE StringBody(s, i,
             CHOOSE j \in i..Len(s) :
                 Closes(s, i, j) /\ \A k \in i..(j - 1) : ~Closes(s, i, k))

\* The character of s at index j, "" past the end.
At(s, j) == IF j <= Len(s) THEN s[j] ELSE ""

\* NUMBER_RE: (-?(?:0|[1-9]\d*))(\.\d+)?([eE][-+]?\d+)? matched at index i;
\* the index after the match, 0 when there is no match.  The four parts are
\* matched one after the other, each from the index where the last one ended.
NumberExp(s, c, e1) ==
    IF At(s, c) \in {"e", "E"} /\ At(s, e1) \in Digits
    THEN SkipWhile(s, e1, Digits) ELSE c
NumberFrac(s, b) ==
    IF At(s, b) = "." /\ At(s, b + 1) \in Digits
    THEN SkipWhile(s, b + 1, Digits) ELSE b
NumberSign(s, c) == IF At(s, c + 1) \in {"+", "-"} THEN c + 2 ELSE c + 1
NumberTail(s, c) == NumberExp(s, c, NumberSign(s, c))
NumberInt(s, a) ==
    IF At(s, a) = "0" THEN NumberTail(s, NumberFrac(s, a + 1))
    ELSE IF At(s, a) \in Digits
         THEN NumberTail(s, NumberFrac(s, SkipWhile(s, a, Digits)))
    ELSE 0
NumberEnd(s, i) == NumberInt(s, IF At(s, i) = "-" THEN i + 1 ELSE i)

\* s has the characters of w at index i.
HasWord(s, i, w) ==
    /\ i + Len(w) - 1 <= Len(s)
    /\ \A k \in 1..Len(w) : s[i + k - 1] = w[k]

W_true == <<"t", "r", "u", "e">>
W_false == <<"f", "a", "l", "s", "e">>
W_null == <<"n", "u", "l", "l">>
W_NaN == <<"N", "a", "N">>
W_Infinity == <<"I", "n", "f", "i", "n", "i", "t", "y">>
W_NegInfinity == <<"-">> \o W_Infinity

Lit(name, nxt) == [ok |-> TRUE, next |-> nxt, val |-> [t |-> "lit", name |-> name]]

\* scanner.py scan_once for a value that is neither a string, an object nor an
\* array; e is the end of the number matched at i, 0 when none is.
ParseScalar(s, i, e) ==
    IF HasWord(s, i, W_null) THEN Lit("null", i + 4)
    ELSE IF HasWord(s, i, W_true) THEN Lit("true", i + 4)
    ELSE IF HasWord(s, i, W_false) THEN Lit("false", i + 5)
    ELSE IF e # 0
         THEN [ok |-> TRUE, next |-> e, val |-> [t |-> "num", lex |-> SubSeq(s, i, e - 1)]]
    ELSE IF HasWord(s, i, W_NaN) THEN Lit("NaN", i + 3)
    ELSE IF HasWord(s, i, W_Infinity) THEN Lit("Infinity", i + 8)
    ELSE IF HasWord(s, i, W_NegInfinity) THEN Lit("-Infinity", i + 9)
    ELSE Fail

RECURSIVE ParseValue(_, _), ParseMembers(_, _, _), ParseItems(_, _, _)

\* decoder.py JSONObject, after a member: e is the index of the next token.
MemberEnd(s, acc, e) ==
    IF e > Len(s) THEN Fail
    ELSE IF s[e] = "}"
         THEN [ok |-> TRUE, next |-> e + 1, val |-> [t |-> "obj", members |-> acc]]
    ELSE IF s[e] = "," THEN ParseMembers(s, SkipWs(s, e + 1), acc)
    ELSE Fail

\* ... after the value v of the member named key has been read.
MemberValue(s, acc, key, v) ==
    IF ~v.ok THEN Fail
    ELSE MemberEnd(s, Append(acc, [k |-> key, v |-> v.val]), SkipWs(s, v.next))

\* ... after the name of the member: c is where the colon must be.
MemberColon(s, acc, key, c) ==
    IF c > Len(s) \/ s[c] # ":" THEN Fail
    ELSE MemberValue(s, acc, key, ParseValue(s, SkipWs(s, c + 1)))

\* ... after the string k, the name of the member, has been read.
MemberKey(s, acc, k) ==
    IF ~k.ok THEN Fail ELSE MemberColon(s, acc, k.val.s, SkipWs(s, k.next))

\* decoder.py JSONObject: i is where the next property name must start.
ParseMembers(s, i, acc) ==
    IF i > Len(s) \/ s[i] # "\"" THEN Fail
    ELSE MemberKey(s, acc, ParseString(s, i + 1))

\* decoder.py JSONArray, after an item: e is the index of the next token.
ItemEnd(s, acc, e) ==
    IF e > Len(s) THEN Fail
    ELSE IF s[e] = "]"
         THEN [ok |-> TRUE, next |-> e + 1, val |-> [t |-> "arr", items |-> acc]]
    ELSE IF s[e] = "," THEN ParseItems(s, SkipWs(s, e + 1), acc)
    ELSE Fail

\* ... after the item v has been read.
ItemValue(s, acc, v) ==
    IF ~v.ok THEN Fail ELSE ItemEnd(s, Append(acc, v.val), SkipWs(s, v.next))

\* decoder.py JSONArray: i is where the next item must start.
ParseItems(s, i, acc) == ItemValue(s, acc, ParseValue(s, i))

\* The object or the array whose bracket is at i-1: j is the index of the first
\* token after the bracket.
ParseObject(s, j) ==
    IF j <= Len(s) /\ s[j] = "}"
    THEN [ok |-> TRUE, next |-> j + 1, val |-> [t |-> "obj", members |-> <<>>]]
    ELSE ParseMembers(s, j, <<>>)

ParseArray(s, j) ==
    IF j <= Len(s) /\ s[j] = "]"
    THEN [ok |-> TRUE, next |-> j + 1, val |-> [t |-> "arr", items |-> <<>>]]
    ELSE ParseItems(s, j, <<>>)

\* scanner.py scan_once
ParseValue(s, i) ==
    IF i > Len(s) THEN Fail
    ELSE IF s[i] = "\"" THEN ParseString(s, i + 1)
    ELSE IF s[i] = "{" THEN ParseObject(s, SkipWs(s, i + 1))
    ELSE IF s[i] = "[" THEN ParseArray(s, SkipWs(s, i + 1))
    ELSE ParseScalar(s, i, NumberEnd(s, i))

\* json.loads, once the first value v of the text has been read: nothing but
\* white space may follow it.
WholeText(s, v) == IF v.ok /\ SkipWs(s, v.next) = Len(s) + 1 THEN v ELSE Fail

\* json.loads(s): ok = FALSE stands for json.JSONDecodeError.
JsonLoads(s) == WholeText(s, ParseValue(s, SkipWs(s, 1)))

(***************************************************************************)
(* _extract_json (lines 16-69).                                            *)
(***************************************************************************)
ScanInit == [depth |-> 0, in_string |-> FALSE, escape_next |-> FALSE, end |-> 0]

\* ScanStep with the test of line 48 dropped: braces count inside strings too.
ScanStep_CountInStrings(st, char, i, start_idx) ==
    IF st.end # 0 THEN st
    ELSE IF char = "\\" /\ ~st.escape_next
         THEN [st EXCEPT !.escape_next = TRUE]
    ELSE
      LET in_string == IF char = "\"" /\ ~st.escape_next
                       THEN ~st.in_string ELSE st.in_string
          depth == IF char = "{" THEN st.depth + 1
                   ELSE IF char = "}" THEN st.depth - 1
                   ELSE st.depth
      IN  [depth |-> depth, in_string |-> in_string, escape_next |-> FALSE,
           end |-> IF depth = 0 /\ i > start_idx THEN i ELSE 0]

\* One iteration of the loop of lines 34-61 at index i.  end # 0 means the loop
\* has been left at line 56 with i = end; later indices are never visited.
ScanStep(st, char, i, start_idx) ==
    IF st.end # 0 THEN st
    ELSE IF char = "\\" /\ ~st.escape_next
         THEN [st EXCEPT !.escape_next = TRUE]
    ELSE
      LET in_string == IF char = "\"" /\ ~st.escape_next
                       THEN ~st.in_string ELSE st.in_string
          depth == IF in_string THEN st.depth
                   ELSE IF char = "{" THEN st.depth + 1
                   ELSE IF char = "}" THEN st.depth - 1
                   ELSE st.depth
      IN  [depth |-> depth, in_string |-> in_string, escape_next |-> FALSE,
           end |-> IF ~in_string /\ depth = 0 /\ i > start_idx THEN i ELSE 0]

\* The loop over range(lo, hi + 1), entered in state st.  The range is split in
\* two halves run one after the other, which visits the indices in order.
RECURSIVE ScanRange(_, _, _, _, _)
ScanRange(s, start_idx, st, lo, hi) ==
    IF lo > hi THEN st
    ELSE IF lo = hi THEN ScanStep(st, s[lo], lo, start_idx)
    ELSE LET mid == (lo + hi) \div 2
             left == ScanRange(s, start_idx, st, lo, mid)
         IN  IF left.end # 0 THEN left
             ELSE ScanRange(s, start_idx, left, mid + 1, hi)

\* Line 56 with the slice taken as text[start_idx:i].
Candidate_ShortSlice(s, start_idx, end) == SubSeq(s, start_idx, end - 1)

\* Line 56: json_str = text[start_idx:i+1].
Candidate(s, start_idx, end) == SubSeq(s, start_idx, end)

\* TryCandidate returning what lies between the braces of the candidate.
TryCandidate_Inner(json_str) ==
    IF JsonLoads(json_str).ok
    THEN [exc |-> FALSE, ret |-> SubSeq(json_str, 2, Len(json_str) - 1)]
    ELSE [exc |-> TRUE, ret |-> <<>>]

\* Lines 56-61 for the candidate json_str: exc = TRUE when json.loads raises.
TryCandidate(json_str) ==
    IF JsonLoads(json_str).ok THEN [exc |-> FALSE, ret |-> json_str]
    ELSE [exc |-> TRUE, ret |-> <<>>]

\* Lines 30-65, the scan having ended in state st: the candidate, or the text.
AfterScan(s, start_idx, st) ==
    IF st.end = 0 THEN [exc |-> FALSE, ret |-> s]
    ELSE TryCandidate(Candidate(s, start_idx, st.end))

\* Lines 25-65, start_idx being the result of text.find('{').
FromStart(s, start_idx) ==
    IF start_idx = 0 THEN [exc |-> FALSE, ret |-> s]
    ELSE AfterScan(s, start_idx, ScanRange(s, start_idx, ScanInit, start_idx, Len(s)))

\* The body of the try block: exc = TRUE when json.loads raises at line 60,
\* otherwise ret is the value returned at line 27, 61 or 65.
ExtractJsonTry(s) == FromStart(s, Find(s, "{"))

\* The handler of lines 67-69 left out: the exception goes to the caller.
ExtractJsonExcept_Propagate(s, r) ==
    IF r.exc THEN [raised |-> TRUE, val |-> <<>>]
    ELSE [raised |-> FALSE, val |-> r.ret]

\* The text from its first '{' on returned where lines 27, 65, 69 return the text.
ExtractJsonExcept_Tail(s, r) ==
    IF (r.exc \/ r.ret = s) /\ Find(s, "{") # 0
    THEN [raised |-> FALSE, val |-> SubSeq(s, Find(s, "{"), Len(s))]
    ELSE IF r.exc THEN [raised |-> FALSE, val |-> s]
    ELSE [raised |-> FALSE, val |-> r.ret]

\* try ... except Exception: return text (lines 67-69), r being the outcome
\* of the try block.
ExtractJsonExcept(s, r) ==
    IF r.exc THEN [raised |-> FALSE, val |-> s]
    ELSE [raised |-> FALSE, val |-> r.ret]

extract_json(s) == ExtractJsonExcept(s, ExtractJsonTry(s))

(***************************************************************************)
(* Inputs of _extract_json: every text of at most MaxLen characters over   *)
(* ScanAlphabet, and every text made of a quoted key of at most MaxKey     *)
(* free characters in a one-member object between two pieces of noise.     *)
(***************************************************************************)
ScanAlphabet == {"{", "}", "\"", "\\", ":", "1"}

AllStrings(A, n) == UNION {[1..k -> A] : k \in 0..n}

Noise == {<<>>} \cup {<<c>> : c \in ScanAlphabet}

TemplateTexts ==
    {pre \o <<"{", "\"">> \o k \o <<"\"", ":", "1", "}">> \o post :
        pre \in Noise, k \in AllStrings(ScanAlphabet, MaxKey), post \in Noise}

InputTexts == AllStrings(ScanAlphabet, MaxLen) \cup TemplateTexts

(***************************************************************************)
(* The model-response schema (core.models: StoryLLMResponse, StoryNodeLLM, *)
(* and the option type), whose source is not part of the files at hand:    *)
(* taken from the data model of the written specification.  A validated    *)
(* description is                                                          *)
(*   [title, rootNode]  with nodes  [content, isEnding, isWinningEnding,   *)
(*   options]  and options  <<[text, nextNode], ...>>.                     *)
(***************************************************************************)
K_title == <<"t", "i", "t", "l", "e">>
K_rootNode == <<"r", "o", "o", "t", "N", "o", "d", "e">>
K_content == <<"c", "o", "n", "t", "e", "n", "t">>
K_isEnding == <<"i", "s", "E", "n", "d", "i", "n", "g">>
K_isWinningEnding ==
    <<"i", "s", "W", "i", "n", "n", "i", "n", "g", "E", "n", "d", "i", "n", "g">>
K_options == <<"o", "p", "t", "i", "o", "n", "s">>
K_text == <<"t", "e", "x", "t">>
K_nextNode == <<"n", "e", "x", "t", "N", "o", "d", "e">>

\* dict.get on a decoded JSON object: the last member named key wins.
HasKey(v, key) == \E m \in 1..Len(v.members) : v.members[m].k = key
Get(v, key) ==
    LET S == {m \in 1..Len(v.members) : v.members[m].k = key}
    IN  v.members[CHOOSE m \in S : \A n \in S : n <= m].v

IsStr(v) == v.t = "str"
IsBool(v) == v.t = "lit" /\ v.name \in {"true", "false"}

Invalid == [ok |-> FALSE, val |-> <<>>]

RECURSIVE ValidateNode(_), ValidateOptions(_, _, _)

\* The node v, its fields being of the right types and opts its validated options.
NodeWith(v, opts) ==
    IF ~opts.ok THEN Invalid
    ELSE [ok |-> TRUE,
          val |-> [content |-> Get(v, K_content).s,
                   isEnding |-> Get(v, K_isEnding).name = "true",
                   isWinningEnding |-> Get(v, K_isWinningEnding).name = "true",
                   options |-> opts.val]]

\* StoryNodeLLM.model_validate: ok = FALSE stands for pydantic's ValidationError.
ValidateNode(v) ==
    IF ~(/\ v.t = "obj"
         /\ HasKey(v, K_content) /\ IsStr(Get(v, K_content))
         /\ HasKey(v, K_isEnding) /\ IsBool(Get(v, K_isEnding))
         /\ HasKey(v, K_isWinningEnding) /\ IsBool(Get(v, K_isWinningEnding))
         /\ HasKey(v, K_options) /\ Get(v, K_options).t = "arr")
    THEN Invalid
    ELSE NodeWith(v, ValidateOptions(Get(v, K_options).items, 1, <<>>))

\* The option o, item m of items, n being its validated nextNode.
OptionWith(items, m, acc, o, n) ==
    IF ~n.ok THEN Invalid
    ELSE ValidateOptions(items, m + 1,
             Append(acc, [text |-> Get(o, K_text).s, nextNode |-> n.val]))

ValidateOption(items, m, acc, o) ==
    IF ~(/\ o.t = "obj"
         /\ HasKey(o, K_text) /\ IsStr(Get(o, K_text))
         /\ HasKey(o, K_nextNode))
    THEN Invalid
    ELSE OptionWith(items, m, acc, o, ValidateNode(Get(o, K_nextNode)))

ValidateOptions(items, m, acc) ==
    IF m > Len(items) THEN [ok |-> TRUE, val |-> acc]
    ELSE ValidateOption(items, m, acc, items[m])

\* The story v, n being its validated rootNode.
StoryWith(v, n) ==
    IF ~n.ok THEN Invalid
    ELSE [ok |-> TRUE, val |-> [title |-> Get(v, K_title).s, rootNode |-> n.val]]

\* StoryLLMResponse.model_validate
ValidateStory(v) ==
    IF ~(/\ v.t = "obj"
         /\ HasKey(v, K_title) /\ IsStr(Get(v, K_title))
         /\ HasKey(v, K_rootNode))
    THEN Invalid
    ELSE StoryWith(v, ValidateNode(Get(v, K_rootNode)))

(***************************************************************************)
(* What the language model may answer.  JSON values are written out        *)
(* character by character, the way a JSON encoder does.                    *)
(***************************************************************************)
RECURSIVE Flatten(_)
Flatten(ss) == IF ss = <<>> THEN <<>> ELSE Head(ss) \o Flatten(Tail(ss))

Quote(str) ==
    <<"\"">>
    \o Flatten([k \in 1..Len(str) |->
                   IF str[k] \in {"\"", "\\"} THEN <<"\\", str[k]>> ELSE <<str[k]>>])
    \o <<"\"">>

RECURSIVE Dumps(_), DumpsMembers(_, _), DumpsItems(_, _)
Dumps(v) ==
    CASE v.t = "str" -> Quote(v.s)
      [] v.t = "num" -> v.lex
      [] v.t = "lit" -> (CASE v.name = "true" -> W_true
                           [] v.name = "false" -> W_false
                           [] v.name = "null" -> W_null
                           [] v.name = "NaN" -> W_NaN)
      [] v.t = "arr" -> <<"[">> \o DumpsItems(v.items, 1) \o <<"]">>
      [] v.t = "obj" -> <<"{">> \o DumpsMembers(v.members, 1) \o <<"}">>

DumpsMembers(ms, m) ==
    IF m > Len(ms) THEN <<>>
    ELSE (IF m > 1 THEN <<",", " ">> ELSE <<>>)
         \o Quote(ms[m].k) \o <<":", " ">> \o Dumps(ms[m].v)
         \o DumpsMembers(ms, m + 1)

DumpsItems(is, m) ==
    IF m > Len(is) THEN <<>>
    ELSE (IF m > 1 THEN <<",", " ">> ELSE <<>>) \o Dumps(is[m]) \o DumpsItems(is, m + 1)

JStr(str) == [t |-> "str", s |-> str]
JBool(b) == [t |-> "lit", name |-> IF b THEN "true" ELSE "false"]
JNum(lex) == [t |-> "num", lex |-> lex]
JArr(items) == [t |-> "arr", items |-> items]
JObj(members) == [t |-> "obj", members |-> members]

\* The JSON value that spells a node description.
RECURSIVE NodeJson(_)
NodeJson(n) ==
    JObj(<<[k |-> K_content, v |-> JStr(n.content)],
           [k |-> K_isEnding, v |-> JBool(n.isEnding)],
           [k |-> K_isWinningEnding, v |-> JBool(n.isWinningEnding)],
           [k |-> K_options,
            v |-> JArr([m \in 1..Len(n.options) |->
                          JObj(<<[k |-> K_text, v |-> JStr(n.options[m].text)],
                                 [k |-> K_nextNode,
                                  v |-> NodeJson(n.options[m].nextNode)]>>)])]>>)

StoryJson(d) ==
    JObj(<<[k |-> K_title, v |-> JStr(d.title)],
           [k |-> K_rootNode, v |-> NodeJson(d.rootNode)]>>)

\* Node descriptions of exactly n nodes, and option lists holding n nodes in
\* all.  The content of a node spells its path from the root; the text of an
\* option spells its rank among its siblings.
OptionTexts == <<"a", "b", "c", "d", "e", "f", "g", "h">>

RECURSIVE NodesOfSize(_, _), OptionsOfSize(_, _, _)
NodesOfSize(n, path) ==
    {[content |-> path, isEnding |-> e, isWinningEnding |-> w, options |-> os] :
        e \in BOOLEAN, w \in BOOLEAN, os \in OptionsOfSize(n - 1, path, 1)}

OptionsOfSize(n, path, rank) ==
    IF n = 0 THEN {<<>>}
    ELSE UNION {
           {<<[text |-> <<OptionTexts[rank]>>, nextNode |-> c]>> \o rest :
               c \in NodesOfSize(k, path \o <<OptionTexts[rank]>>),
               rest \in OptionsOfSize(n - k, path, rank + 1)} :
           k \in 1..n}

ValidDocs ==
    {[title |-> <<"T", "\"", "1">>, rootNode |-> r] :
        r \in UNION {NodesOfSize(n, <<"r">>) : n \in 1..MaxNodes}}

(***************************************************************************)
(* SpecExtract: one call of _extract_json on an input text.                *)
(***************************************************************************)
InitExtract ==
    /\ pc = "extract"
    /\ text \in InputTexts
    /\ extract_result = None
    /\ theme = <<>>
    /\ session_id = ""
    /\ response = None
    /\ api_result = None
    /\ outcome = "none"
    /\ story_structure = None
    /\ story_rows = <<>>
    /\ node_rows = <<>>
    /\ durable = [stories |-> <<>>, nodes |-> <<>>]
    /\ commits = 0
    /\ stack = <<>>
    /\ story_db = 0

ExtractJsonCall ==
    /\ pc = "extract"
    /\ extract_result' = extract_json(text)
    /\ pc' = "extracted"
    /\ UNCHANGED <<text, callVars, api_result, outcome, story_structure, dbVars>>

\* _extract_json is called on the text that the first call returned.
ExtractJsonAgain ==
    /\ pc = "extracted"
    /\ ~extract_result.raised
    /\ extract_result' = [raised |-> extract_result.raised,
                          val |-> extract_result.val,
                          again |-> extract_json(extract_result.val)]
    /\ pc' = "again"
    /\ UNCHANGED <<text, callVars, api_result, outcome, story_structure, dbVars>>

NextExtract ==
    \/ ExtractJsonCall
    \/ ExtractJsonAgain

SpecExtract == InitExtract /\ [][NextExtract]_vars

(***************************************************************************)
(* _call_gemini_api (lines 71-126).  response is what the HTTP exchange of *)
(* lines 95-98 yields: [kind |-> "exception", e] when requests.post,       *)
(* raise_for_status or response.json() raises a RequestException, else     *)
(* [kind |-> "json", body] with body the decoded payload, a record whose   *)
(* fields are the keys of the dict.                                        *)
(***************************************************************************)
NoValidResponse ==
    <<"N", "o", " ", "v", "a", "l", "i", "d", " ", "r", "e", "s", "p", "o", "n",
      "s", "e", " ", "f", "r", "o", "m", " ", "G", "e", "m", "i", "n", "i", " ",
      "A", "P", "I">>

\* The text of lines 101-104, when the payload has it.
HasCandidates(body) == "candidates" \in DOMAIN body /\ Len(body.candidates) > 0
HasParts(content) == "parts" \in DOMAIN content /\ Len(content.parts) > 0

\* An exception with message m leaves the try block of line 93.
Raise(m) == [exc |-> TRUE, msg |-> m, ret |-> <<>>, extraction |-> None]

\* Line 107: return cls._extract_json(text), x being what _extract_json gives.
ReturnExtracted(x) == [exc |-> FALSE, msg |-> <<>>, ret |-> x.val, extraction |-> x]

\* Lines 109-117: no usable candidate.
NoCandidate(body) ==
    IF "error" \in DOMAIN body
    THEN Raise(<<"Gemini API error: ",
                 IF "message" \in DOMAIN body.error
                 THEN body.error.message ELSE "Unknown API error">>)
    ELSE [exc |-> FALSE, msg |-> <<>>, ret |-> NoValidResponse, extraction |-> None]

\* Lines 102-107 for the first candidate.
FirstCandidate(body, candidate) ==
    IF "content" \notin DOMAIN candidate THEN Raise(<<"'content'">>)     \* KeyError
    ELSE IF ~HasParts(candidate.content) THEN NoCandidate(body)
    ELSE IF "text" \notin DOMAIN candidate.content.parts[1]
         THEN Raise(<<"'text'">>)                                        \* KeyError
    ELSE ReturnExtracted(extract_json(candidate.content.parts[1].text))

\* Lines 98-117: [exc, msg, ret, extraction]; exc = TRUE when an exception
\* leaves the try block, with message msg; extraction is the outcome of
\* _extract_json when line 107 ran.
CallTry(body) ==
    IF HasCandidates(body) THEN FirstCandidate(body, body.candidates[1])
    ELSE NoCandidate(body)

\* The handler of lines 123-126, r being the outcome of the try block.
CallExcept(r) ==
    IF r.exc
    THEN [raised |-> TRUE, val |-> <<"Error calling Gemini API: ">> \o r.msg,
          extraction |-> r.extraction]
    ELSE [raised |-> FALSE, val |-> r.ret, extraction |-> r.extraction]

\* [raised, val, extraction]: val is the text returned, or the message of the
\* exception raised.
call_gemini_api(resp) ==
    IF resp.kind = "exception"
    THEN [raised |-> TRUE, extraction |-> None,
          val |-> <<"Network error when calling Gemini API: ", resp.e>>]
    ELSE CallExcept(CallTry(resp.body))

(***************************************************************************)
(* generate_story, lines 134-182: the description to persist.              *)
(***************************************************************************)
TruncLen == 500

\* s[:TruncLen - 1]
Truncate_OneShort(s) == IF Len(s) < TruncLen THEN s ELSE SubSeq(s, 1, TruncLen - 1)

\* s[:TruncLen]
Truncate(s) == IF Len(s) <= TruncLen THEN s ELSE SubSeq(s, 1, TruncLen)

Lowers ==
    <<"a", "b", "c", "d", "e", "f", "g", "h", "i", "j", "k", "l", "m", "n", "o",
      "p", "q", "r", "s", "t", "u", "v", "w", "x", "y", "z">>
Uppers ==
    <<"A", "B", "C", "D", "E", "F", "G", "H", "I", "J", "K", "L", "M", "N", "O",
      "P", "Q", "R", "S", "T", "U", "V", "W", "X", "Y", "Z">>

\* str.capitalize(): the first character in upper case, the others in lower case.
Capitalize(str) ==
    [k \in 1..Len(str) |->
        IF k = 1
        THEN IF Find(Lowers, str[k]) # 0 THEN Uppers[Find(Lowers, str[k])] ELSE str[k]
        ELSE IF Find(Uppers, str[k]) # 0 THEN Lowers[Find(Uppers, str[k])] ELSE str[k]]

\* StoryNodeLLM(content=..., isEnding=True, isWinningEnding=..., options=[])
EndingNode(content, winning) ==
    [content |-> content, isEnding |-> TRUE, isWinningEnding |-> winning,
     options |-> <<>>]

\* Lines 150-158 and 162-170.
RawTextFallback(th, response_text) ==
    [title |-> Capitalize(th) \o <<" Story">>,
     rootNode |-> EndingNode(Truncate(response_text), TRUE)]

\* ErrorFallback with the flags of the other fallback.
ErrorFallback_Winning(th, e) ==
    [title |-> <<"Error: ">> \o Capitalize(th) \o <<" Story">>,
     rootNode |->
        EndingNode(<<"We encountered an error while generating your story: ">> \o e,
                   TRUE)]

\* Lines 174-182.
ErrorFallback(th, e) ==
    [title |-> <<"Error: ">> \o Capitalize(th) \o <<" Story">>,
     rootNode |->
        EndingNode(<<"We encountered an error while generating your story: ">> \o e,
                   FALSE)]

\* A description is built on the named branch; nothing is raised.
Built(branch, structure) ==
    [raised |-> FALSE, branch |-> branch, structure |-> structure]

\* AfterValidate without the handler of lines 159-170 nor that of line 171.
AfterValidate_Propagate(th, response_text, validated) ==
    IF ~validated.ok
    THEN [raised |-> TRUE, branch |-> "none", structure |-> None]
    ELSE Built("ok", validated.val)

\* AfterValidate without the handler of lines 159-170: the handler of line 171
\* takes the ValidationError, whose message is not modelled.
AfterValidate_OuterHandler(th, response_text, validated) ==
    IF ~validated.ok
    THEN Built("validation_error", ErrorFallback(th, <<"validation error">>))
    ELSE Built("ok", validated.val)

\* Lines 145-170, validated being the outcome of model_validate.
AfterValidate(th, response_text, validated) ==
    IF ~validated.ok
    THEN Built("validation_error", RawTextFallback(th, response_text))
    ELSE Built("ok", validated.val)

\* Lines 142-170, json_data being the outcome of json.loads.
AfterLoads(th, response_text, json_data) ==
    IF ~json_data.ok
    THEN Built("decode_error", RawTextFallback(th, response_text))
    ELSE AfterValidate(th, response_text, ValidateStory(json_data.val))

\* Lines 134-182, given the outcome of _call_gemini_api: [raised, branch,
\* structure]; raised = TRUE would be an exception leaving generate_story.
BuildStructure(th, res) ==
    IF res.raised
    THEN Built("api_error", ErrorFallback(th, res.val))
    ELSE AfterLoads(th, res.val, JsonLoads(res.val))

(***************************************************************************)
(* Inputs of generate_story.                                               *)
(***************************************************************************)
Themes == {<<"f", "a", "n", "t", "a", "s", "y">>, <<"s", "c", "i", "-", "F", "I">>}

TransportErrors == {"Connection refused", "Read timed out", "500 Server Error"}

Pad(n) == [i \in 1..n |-> "x"]

PreNoise == {<<>>, <<"o", "k", " ">>, <<"{", "x", "}", " ">>}
PostNoise == {<<>>, <<" ", "}">>}

\* One schema-valid answer, used inside the answers that are not.
SampleNode == EndingNode(<<"c">>, FALSE)
SampleDoc == [title |-> <<"T">>, rootNode |-> SampleNode]

\* JSON values that do not match the schema.
InvalidDocs ==
    {JObj(<<[k |-> K_title, v |-> JStr(<<"T">>)]>>),
     JObj(<<[k |-> K_title, v |-> JNum(<<"1">>)],
            [k |-> K_rootNode, v |-> NodeJson(SampleNode)]>>),
     JObj(<<[k |-> K_title, v |-> JStr(<<"T">>)],
            [k |-> K_rootNode, v |-> JArr(<<NodeJson(SampleNode)>>)]>>),
     JObj(<<[k |-> K_title, v |-> JStr(<<"T">>)],
            [k |-> K_rootNode,
             v |-> JObj(<<[k |-> K_content, v |-> JStr(<<"c">>)],
                          [k |-> K_isEnding, v |-> JStr(<<"n", "o">>)],
                          [k |-> K_isWinningEnding, v |-> JBool(FALSE)],
                          [k |-> K_options, v |-> JArr(<<>>)]>>)]>>),
     JObj(<<[k |-> K_title, v |-> JStr(<<"T">>)],
            [k |-> K_rootNode,
             v |-> JObj(<<[k |-> K_content, v |-> JStr(<<"c">>)],
                          [k |-> K_isEnding, v |-> JBool(FALSE)],
                          [k |-> K_isWinningEnding, v |-> JBool(FALSE)],
                          [k |-> K_options,
                           v |-> JArr(<<JObj(<<[k |-> K_text, v |-> JStr(<<"a">>)],
                                               [k |-> K_nextNode,
                                                v |-> JObj(<<>>)]>>)>>)]>>)]>>),
     JArr(<<StoryJson(SampleDoc)>>),
     JArr(<<JNum(<<"1">>), JBool(TRUE)>>)}

DocTexts ==
    {pre \o Dumps(v) \o post :
        pre \in PreNoise, post \in PostNoise,
        v \in {StoryJson(d) : d \in ValidDocs} \cup InvalidDocs}

\* Answers around the TruncLen characters that a fallback keeps.
LongObject(n) == <<"{", "\"", "k", "\"", ":", " ", "\"">> \o Pad(n) \o <<"\"", "}">>

LongTexts ==
    {Pad(n) : n \in {TruncLen - 1, TruncLen, TruncLen + 1}}
    \cup {Pad(TruncLen) \o Dumps(v) :
             v \in {StoryJson(SampleDoc), JObj(<<[k |-> K_title, v |-> JStr(<<"T">>)]>>)}}
    \cup {pre \o LongObject(n) \o post :
             pre \in PreNoise, post \in PostNoise, n \in {TruncLen - 10, TruncLen}}
    \cup {<<"{">> \o Pad(TruncLen) \o <<"}">>,
          <<"\"">> \o Pad(TruncLen) \o <<"\"">>}

ModelTexts == AllStrings(ScanAlphabet, MaxShort) \cup DocTexts \cup LongTexts

Payload(t) == [candidates |-> <<[content |-> [parts |-> <<[text |-> t]>>]]>>]

Bodies ==
    {Payload(t) : t \in ModelTexts}
    \cup {[candidates |-> <<[content |-> [parts |-> <<[text |-> Dumps(StoryJson(SampleDoc))]>>]]>>,
           error |-> [message |-> "partial"]],
          [candidates |-> <<>>],
          [candidates |-> <<>>, error |-> [message |-> "quota exceeded"]],
          [candidates |-> <<[content |-> [role |-> "model"]]>>],
          [candidates |-> <<[content |-> [parts |-> <<>>]]>>],
          [candidates |-> <<[content |-> [parts |-> <<[inlineData |-> "x"]>>]]>>],
          [candidates |-> <<[finishReason |-> "SAFETY"]>>],
          [error |-> [message |-> "API key not valid"]],
          [error |-> [code |-> "400"]],
          [promptFeedback |-> "blocked"]}

Responses ==
    {[kind |-> "exception", e |-> m] : m \in TransportErrors}
    \cup {[kind |-> "json", body |-> b] : b \in Bodies}

\* The rows a session may hold before the call: none, or an earlier story.
PriorDbs ==
    {[stories |-> <<>>, nodes |-> <<>>],
     [stories |-> <<[id |-> 1, title |-> <<"O", "l", "d">>, session_id |-> "s0"]>>,
      nodes |-> <<[id |-> 1, story_id |-> 1, content |-> <<"o">>, is_root |-> TRUE,
                   is_ending |-> TRUE, is_winning_ending |-> FALSE,
                   options |-> <<>>]>>]}

\* The callers of generate_story: the default theme on an empty database,
\* another theme in a database that holds an earlier story.
Callers ==
    {c \in [theme : Themes, db : PriorDbs] :
        (c.theme = <<"f", "a", "n", "t", "a", "s", "y">>) <=> (c.db.stories = <<>>)}

(***************************************************************************)
(* Spec: one call of generate_story.                                       *)
(***************************************************************************)
Init ==
    /\ pc = "call"
    /\ session_id = "s1"
    /\ response \in Responses
    /\ \E c \in Callers :
          /\ theme = c.theme
          /\ story_rows = c.db.stories
          /\ node_rows = c.db.nodes
          /\ durable = c.db
    /\ text = <<>>
    /\ extract_result = None
    /\ api_result = None
    /\ outcome = "none"
    /\ story_structure = None
    /\ commits = 0
    /\ stack = <<>>
    /\ story_db = 0

\* The outcome r of _call_gemini_api is recorded, and with it the call of
\* _extract_json that line 107 made.
SetCallResult(r) ==
    /\ api_result' = [raised |-> r.raised, val |-> r.val]
    /\ IF r.extraction = None
       THEN UNCHANGED extractVars
       ELSE /\ text' = response.body.candidates[1].content.parts[1].text
            /\ extract_result' = r.extraction

\* Line 136: the call of _call_gemini_api, and of _extract_json inside it.
CallGeminiApi ==
    /\ pc = "call"
    /\ SetCallResult(call_gemini_api(response))
    /\ pc' = "parse"
    /\ UNCHANGED <<callVars, outcome, story_structure, dbVars>>

SetStructure(b) ==
    /\ outcome' = b.branch
    /\ story_structure' = b.structure
    /\ pc' = IF b.raised THEN "raised" ELSE "stage"

\* Lines 137-182.
ParseResponse ==
    /\ pc = "parse"
    /\ SetStructure(BuildStructure(theme, api_result))
    /\ UNCHANGED <<extractVars, callVars, api_result, dbVars>>

\* db.flush() with the rows committed so far: the rows staged in the session
\* get their ids, the committed rows stay as they are.
Flush_Commits(committed, stories, nodes) == [stories |-> stories, nodes |-> nodes]

Flush(committed, stories, nodes) == committed

\* Lines 184-190: the Story row is added and flushed, which gives it its id.
StageStory ==
    /\ pc = "stage"
    /\ story_rows' = Append(story_rows,
                            [id |-> Len(story_rows) + 1,
                             title |-> story_structure.title,
                             session_id |-> session_id])
    /\ story_db' = Len(story_rows) + 1
    /\ durable' = Flush(durable, story_rows', node_rows)
    /\ pc' = "process"
    /\ UNCHANGED <<extractVars, callVars, api_result, outcome, story_structure,
                   node_rows, commits, stack>>

\* The test of line 210 without its first conjunct.
HasLoop_IgnoreEnding(node_data) == node_data.options # <<>>

\* The test of line 210 for the description of a frame.
HasLoop(node_data) == ~node_data.isEnding /\ node_data.options # <<>>

\* InLoop leaving the last option out.
InLoop_SkipLast(frame) ==
    HasLoop(frame.node_data) /\ frame.k < Len(frame.node_data.options)

\* A frame still has an option whose child is to be persisted (lines 212-218).
InLoop(frame) == HasLoop(frame.node_data) /\ frame.k <= Len(frame.node_data.options)

\* The description the next call of _process_story_node is given: the root
\* (line 192), or the nextNode of the current option of the caller (line 218).
NextNodeData ==
    IF stack = <<>> THEN story_structure.rootNode
    ELSE LET top == stack[Len(stack)]
         IN  top.node_data.options[top.k].nextNode

\* The is_root argument of the call made with the frames stk on the stack:
\* True at line 192, False at line 218.
IsRootArg_Always(stk) == TRUE

IsRootArg(stk) == stk = <<>>

\* The entry of the first child, once more.
AppendOption_FirstChild(options_list, option_data, child_id) ==
    Append(options_list,
           [text |-> option_data.text,
            node_id |-> IF options_list = <<>> THEN child_id
                        ELSE options_list[1].node_id])

\* The entry names the id that follows the child's.
AppendOption_NextId(options_list, option_data, child_id) ==
    Append(options_list, [text |-> option_data.text, node_id |-> child_id + 1])

\* The entry goes to the head of the list.
AppendOption_Prepend(options_list, option_data, child_id) ==
    <<[text |-> option_data.text, node_id |-> child_id]>> \o options_list

\* Lines 220-223.
AppendOption(options_list, option_data, child_id) ==
    Append(options_list, [text |-> option_data.text, node_id |-> child_id])

\* Lines 199-208: a call of _process_story_node creates its row and flushes.
ProcessNodeEnter ==
    /\ pc = "process"
    /\ IF stack = <<>> THEN TRUE ELSE InLoop(stack[Len(stack)])
    /\ LET node_data == NextNodeData
           id == Len(node_rows) + 1
       IN  /\ node_rows' = Append(node_rows,
                                  [id |-> id,
                                   story_id |-> story_db,
                                   content |-> node_data.content,
                                   is_root |-> IsRootArg(stack),
                                   is_ending |-> node_data.isEnding,
                                   is_winning_ending |-> node_data.isWinningEnding,
                                   options |-> <<>>])
           /\ stack' = Append(stack, [node_id |-> id, node_data |-> node_data,
                                      options_list |-> <<>>, k |-> 1])
    /\ durable' = Flush(durable, story_rows, node_rows')
    /\ UNCHANGED <<pc, extractVars, callVars, api_result, outcome, story_structure,
                   story_rows, commits, story_db>>

\* Lines 225-228 in the call that ends, then lines 220-223 in its caller (or
\* the return to line 194 when the call that ends is the root's).
ProcessNodeReturn ==
    /\ pc = "process"
    /\ stack # <<>>
    /\ ~InLoop(stack[Len(stack)])
    /\ LET top == stack[Len(stack)]
           rest == SubSeq(stack, 1, Len(stack) - 1)
       IN  /\ node_rows' = IF HasLoop(top.node_data)
                           THEN [node_rows EXCEPT ![top.node_id].options = top.options_list]
                           ELSE node_rows
           /\ IF rest = <<>>
              THEN /\ stack' = <<>>
                   /\ pc' = "commit"
              ELSE LET caller == rest[Len(rest)]
                   IN  /\ stack' = [rest EXCEPT ![Len(rest)] =
                                       [caller EXCEPT
                                           !.options_list =
                                               AppendOption(@, caller.node_data.options[caller.k],
                                                            top.node_id),
                                           !.k = @ + 1]]
                       /\ pc' = "process"
    /\ durable' = Flush(durable, story_rows, node_rows')
    /\ UNCHANGED <<extractVars, callVars, api_result, outcome, story_structure,
                   story_rows, commits, story_db>>

\* Lines 194-195.
Commit ==
    /\ pc = "commit"
    /\ durable' = [stories |-> story_rows, nodes |-> node_rows]
    /\ commits' = commits + 1
    /\ pc' = "returned"
    /\ UNCHANGED <<extractVars, callVars, api_result, outcome, story_structure,
                   story_rows, node_rows, stack, story_db>>

\* db.flush() (lines 186, 208, 227) or db.commit() (line 194) raises: no
\* handler encloses them, so generate_story raises.
PersistenceFails ==
    /\ pc \in {"stage", "process", "commit"}
    /\ pc' = "raised"
    /\ UNCHANGED <<extractVars, callVars, api_result, outcome, story_structure,
                   dbVars>>

Next ==
    \/ CallGeminiApi
    \/ ParseResponse
    \/ StageStory
    \/ ProcessNodeEnter
    \/ ProcessNodeReturn
    \/ Commit
    \/ PersistenceFails

Spec == Init /\ [][Next]_vars

(***************************************************************************)
(* Properties of _extract_json, checked under SpecExtract.                 *)
(***************************************************************************)
StartIdx == Find(text, "{")

\* The scan of lines 30-61 over the whole text, and its state before index i.
FinalScan == ScanRange(text, StartIdx, ScanInit, StartIdx, Len(text))
ScanBefore(i) == ScanRange(text, StartIdx, ScanInit, StartIdx, i - 1)

\* The brace-balanced candidate of line 56, when the scan finds one.
CandidateFound == StartIdx # 0 /\ FinalScan.end # 0
ScanCandidate == Candidate(text, StartIdx, FinalScan.end)

\* The JSON object that starts at index a of the text, as json's decoder reads it.
ObjectAt(a) == IF text[a] = "{" THEN ParseValue(text, a) ELSE Fail
ObjectText(a) == SubSeq(text, a, ObjectAt(a).next - 1)
ObjectStarts == {a \in 1..Len(text) : ObjectAt(a).ok}

\* A decoded string of the value holds a brace or a quote.
RECURSIVE HasTrickyString(_)
HasTrickyString(v) ==
    LET Tricky(str) == \E k \in 1..Len(str) : str[k] \in {"{", "}", "\""}
    IN  CASE v.t = "str" -> Tricky(v.s)
          [] v.t = "obj" -> \E m \in 1..Len(v.members) :
                                \/ Tricky(v.members[m].k)
                                \/ HasTrickyString(v.members[m].v)
          [] v.t = "arr" -> \E m \in 1..Len(v.items) : HasTrickyString(v.items[m])
          [] OTHER -> FALSE

\* C1 as stated: whenever the text contains a JSON object, with any noise
\* before and after it, _extract_json returns exactly the first such object's
\* substring, and the returned string parses as JSON.
C1_AnyNoise ==
    (pc = "extracted" /\ ObjectStarts # {}) =>
        /\ ~extract_result.raised
        /\ extract_result.val = ObjectText(Min(ObjectStarts))
        /\ JsonLoads(extract_result.val).ok

\* C1 amended: when the text's first '{' opens a JSON object (the noise before
\* the object holds no '{'), _extract_json returns exactly that object's
\* substring, whatever follows it, and the returned string parses as JSON.
C1_FirstBraceObject ==
    (pc = "extracted" /\ StartIdx # 0 /\ ObjectAt(StartIdx).ok) =>
        /\ ~extract_result.raised
        /\ extract_result.val = ObjectText(StartIdx)
        /\ JsonLoads(extract_result.val).ok

\* C1 witness: a non-empty object between noise on both sides is returned.
C1_Witness ==
    /\ pc = "extracted"
    /\ StartIdx > 1
    /\ ObjectAt(StartIdx).ok
    /\ ObjectAt(StartIdx).val.members # <<>>
    /\ ObjectAt(StartIdx).next <= Len(text)
    /\ extract_result.val = ObjectText(StartIdx)

\* C2: in the scan, a brace met inside a string literal leaves the depth as it
\* is and a quote met while an escape is pending leaves the in-string flag as
\* it is; and an object at the first '{' whose strings hold braces or quotes is
\* returned whole, up to the '}' that closes it.
C2_StringAware ==
    pc = "extracted" /\ StartIdx # 0 =>
        /\ \A i \in StartIdx..Len(text) :
              LET st == ScanBefore(i)
                  st2 == ScanStep(st, text[i], i, StartIdx)
              IN  st.end = 0 =>
                    /\ (st.in_string /\ text[i] \in {"{", "}"}) => st2.depth = st.depth
                    /\ (st.escape_next /\ text[i] = "\"") => st2.in_string = st.in_string
        /\ (ObjectAt(StartIdx).ok /\ HasTrickyString(ObjectAt(StartIdx).val)) =>
              extract_result.val = ObjectText(StartIdx)

\* C2 witness: the returned object has a key holding both a brace and an
\* escaped quote, and noise follows it.
C2_Witness ==
    /\ pc = "extracted"
    /\ StartIdx # 0
    /\ ObjectAt(StartIdx).ok
    /\ LET k == ObjectAt(StartIdx).val.members[1].k
       IN  /\ \E j \in 1..Len(k) : k[j] = "}"
           /\ \E j \in 1..Len(k) : k[j] = "\""
    /\ extract_result.val = ObjectText(StartIdx)
    /\ extract_result.val # text

\* C3: a text without '{', and a text whose scan from the first '{' never
\* brings the depth back to zero, is returned unchanged and nothing is raised.
C3_FailureReturnsText ==
    (pc = "extracted" /\ (StartIdx = 0 \/ FinalScan.end = 0)) =>
        extract_result = [raised |-> FALSE, val |-> text]

\* C3 witness: an unmatched '{' after some noise, with a '}' inside a string.
C3_Witness ==
    /\ pc = "extracted"
    /\ StartIdx > 1
    /\ FinalScan.end = 0
    /\ \E i \in StartIdx..Len(text) : text[i] = "}"
    /\ extract_result.val = text

\* C4 as stated: when the balanced candidate does not parse as JSON, the parse
\* error is propagated to the caller.
C4_ParseErrorPropagates ==
    (pc = "extracted" /\ CandidateFound /\ ~JsonLoads(ScanCandidate).ok) =>
        extract_result.raised

\* C4 amended: when the balanced candidate does not parse as JSON, the parse
\* error is caught inside _extract_json, which returns the original text
\* unchanged and raises nothing.
C4_ParseErrorReturnsText ==
    (pc = "extracted" /\ CandidateFound /\ ~JsonLoads(ScanCandidate).ok) =>
        extract_result = [raised |-> FALSE, val |-> text]

\* C4 witness: a candidate that is not JSON, shorter than the text around it.
C4_Witness ==
    /\ pc = "extracted"
    /\ CandidateFound
    /\ ~JsonLoads(ScanCandidate).ok
    /\ ScanCandidate # text
    /\ extract_result.val = text

(***************************************************************************)
(* Properties of generate_story, checked under Spec.                       *)
(***************************************************************************)
\* The rows of this run's story among the committed rows.
CommittedNodes == {i \in 1..Len(durable.nodes) : durable.nodes[i].story_id = story_db}
CommittedStory == durable.stories[story_db]

\* The run has returned: the Story row of line 195 is committed, once.
Returned ==
    /\ pc = "returned"
    /\ commits = 1
    /\ story_db \in 1..Len(durable.stories)

\* The story committed has exactly one node, the root, an ending without options.
OneEndingNode ==
    /\ Cardinality(CommittedNodes) = 1
    /\ \A i \in CommittedNodes :
          /\ durable.nodes[i].is_root
          /\ durable.nodes[i].is_ending
          /\ durable.nodes[i].options = <<>>

\* An exception left generate_story before a description was built, that is
\* not from the persistence layer.
RaisedInGeneration == pc = "raised" /\ outcome = "none"

\* The payload holds a candidate with a text part (lines 101-104).
UsableCandidate(body) ==
    /\ HasCandidates(body)
    /\ "content" \in DOMAIN body.candidates[1]
    /\ HasParts(body.candidates[1].content)
    /\ "text" \in DOMAIN body.candidates[1].content.parts[1]

ErrorTitle == <<"Error: ">> \o Capitalize(theme) \o <<" Story">>

\* C5: after a transport error the call does not raise because of it, and when
\* it returns the committed story has exactly one node, an ending that is not
\* winning, without options, whose content holds the text of the error.
C5_TransportErrorStory ==
    response.kind = "exception" =>
        /\ ~RaisedInGeneration
        /\ pc = "returned" =>
              /\ Returned
              /\ OneEndingNode
              /\ \A i \in CommittedNodes :
                    /\ ~durable.nodes[i].is_winning_ending
                    /\ \E k \in 1..Len(durable.nodes[i].content) :
                          durable.nodes[i].content[k] = response.e

\* C5 witness: a transport error, and the story committed next to older rows.
C5_Witness ==
    /\ response.kind = "exception"
    /\ Returned
    /\ Len(durable.nodes) = 2
    /\ ~durable.nodes[2].is_winning_ending

\* C6: a payload with neither a usable candidate nor an error object makes
\* _call_gemini_api raise, so that the story persisted is titled
\* 'Error: {Theme} Story' and its node is not a winning ending.
C6_NoContentIsApiError ==
    (/\ response.kind = "json"
     /\ ~UsableCandidate(response.body)
     /\ "error" \notin DOMAIN response.body
     /\ pc # "call") =>
        /\ api_result.raised
        /\ pc = "returned" =>
              /\ CommittedStory.title = ErrorTitle
              /\ \A i \in CommittedNodes : ~durable.nodes[i].is_winning_ending

\* C7: no failure of the generation stage makes generate_story raise, and when
\* the call returns after one the committed story has exactly one node, the
\* root, an ending without options.
C7_FailuresBecomeOneNode ==
    /\ ~RaisedInGeneration
    /\ (pc = "returned" /\ outcome # "ok") =>
          /\ outcome \in {"api_error", "decode_error", "validation_error"}
          /\ Returned
          /\ OneEndingNode

\* C7 witness: an extraction failure (a candidate that is not JSON) followed
\* by a decode failure, and the one-node story committed.
C7_Witness ==
    /\ Returned
    /\ outcome = "decode_error"
    /\ Find(text, "{") # 0
    /\ extract_result.val = text
    /\ OneEndingNode

\* The text of the model's answer, when the payload has one.
ModelText == response.body.candidates[1].content.parts[1].text

\* The one node committed is a winning ending whose content is content.
OneWinningNode(content) ==
    /\ OneEndingNode
    /\ \A i \in CommittedNodes :
          /\ durable.nodes[i].is_winning_ending
          /\ durable.nodes[i].content = content

\* C8 as stated: when the model's text is longer than 500 characters and is
\* not valid JSON, one ending, winning node is persisted whose content is the
\* first 500 characters of that text.
C8_ModelTextHead ==
    (/\ pc = "returned"
     /\ response.kind = "json" /\ UsableCandidate(response.body)
     /\ Len(ModelText) > TruncLen
     /\ ~JsonLoads(ModelText).ok) =>
        OneWinningNode(SubSeq(ModelText, 1, TruncLen))

\* C8 amended: when the text returned by _call_gemini_api (the model's text as
\* _extract_json leaves it) is longer than 500 characters and is not valid
\* JSON, one ending, winning node is persisted whose content is the first 500
\* characters of that text.
C8_ReturnedTextHead ==
    (/\ pc = "returned"
     /\ ~api_result.raised
     /\ Len(api_result.val) > TruncLen
     /\ ~JsonLoads(api_result.val).ok) =>
        /\ Returned
        /\ OneWinningNode(SubSeq(api_result.val, 1, TruncLen))

\* C8 witness: a long text with a brace-balanced candidate that is not JSON.
C8_Witness ==
    /\ Returned
    /\ outcome = "decode_error"
    /\ Len(api_result.val) > TruncLen
    /\ Find(api_result.val, "{") # 0
    /\ OneWinningNode(SubSeq(api_result.val, 1, TruncLen))

\* C9 as stated: when the text decodes as JSON but fails the schema, the
\* content of the fallback node is the model's text, noise included, cut to
\* 500 characters, and the node is a winning ending.
C9_RawModelText ==
    (pc = "returned" /\ outcome = "validation_error") =>
        OneWinningNode(Truncate(ModelText))

\* C9 amended: when the text decodes as JSON but fails the schema, the content
\* of the fallback node is the text that _extract_json returned (the JSON
\* object without the noise around it, or the model's text when nothing was
\* extracted) cut to 500 characters, and the node is a winning ending.
C9_ExtractedText ==
    (pc = "returned" /\ outcome = "validation_error") =>
        /\ Returned
        /\ api_result.val = extract_result.val
        /\ OneWinningNode(Truncate(extract_result.val))

\* C9 witness: an object longer than 500 characters taken out of its noise.
C9_Witness ==
    /\ Returned
    /\ outcome = "validation_error"
    /\ extract_result.val # text
    /\ Len(extract_result.val) > TruncLen
    /\ OneWinningNode(Truncate(extract_result.val))

\* The descriptions of a tree, parents before children, options in order.
RECURSIVE Preorder(_), PreorderOptions(_, _)
Preorder(n) == <<n>> \o PreorderOptions(n.options, 1)
PreorderOptions(os, m) ==
    IF m > Len(os) THEN <<>>
    ELSE Preorder(os[m].nextNode) \o PreorderOptions(os, m + 1)

\* The same, leaving out what lies under a node whose isEnding is true.
RECURSIVE LivePreorder(_), LivePreorderOptions(_, _)
LivePreorder(n) ==
    <<n>> \o (IF n.isEnding THEN <<>> ELSE LivePreorderOptions(n.options, 1))
LivePreorderOptions(os, m) ==
    IF m > Len(os) THEN <<>>
    ELSE LivePreorder(os[m].nextNode) \o LivePreorderOptions(os, m + 1)

\* The committed rows of the story, in the order of their ids, are the
\* descriptions ds in order: same content, same ending flags.
RowsAre(ds) ==
    /\ Cardinality(CommittedNodes) = Len(ds)
    /\ \A i \in CommittedNodes :
          LET d == ds[Cardinality({j \in CommittedNodes : j <= i})]
          IN  /\ durable.nodes[i].content = d.content
              /\ durable.nodes[i].is_ending = d.isEnding
              /\ durable.nodes[i].is_winning_ending = d.isWinningEnding

\* C10 as stated: for a schema-valid tree, one row is persisted for every
\* node description of the tree, with the ending flags of its description.
C10_EveryDescription ==
    (pc = "returned" /\ outcome = "ok") => RowsAre(Preorder(story_structure.rootNode))

\* C10 amended: for a schema-valid tree, one row is persisted for every node
\* description that is the root or an option's nextNode under nodes whose
\* isEnding is false, with the ending flags of its description; what lies
\* under a node whose isEnding is true is not persisted.
C10_EveryLiveDescription ==
    (pc = "returned" /\ outcome = "ok") =>
        /\ Returned
        /\ RowsAre(LivePreorder(story_structure.rootNode))

\* C10 witness: a root with two options, all three nodes persisted.
C10_Witness ==
    /\ Returned
    /\ outcome = "ok"
    /\ Len(story_structure.rootNode.options) = 2
    /\ Cardinality(CommittedNodes) = 3

\* The committed rows of the story persisted from the description d: the
\* content of a description spells its path, which no other description has.
RowsFrom(d) == {i \in CommittedNodes : durable.nodes[i].content = d.content}

\* The descriptions _process_story_node is called on.
Processed == LivePreorder(story_structure.rootNode)

\* C11: the row persisted from a non-ending description with k >= 1 options
\* has k option entries, the i-th with the text of the i-th option and the id
\* of the row persisted from the i-th option's nextNode.
C11_OptionsInInputOrder ==
    pc = "returned" =>
        \A p \in 1..Len(Processed) :
            LET d == Processed[p]
            IN  (~d.isEnding /\ Len(d.options) >= 1) =>
                    /\ Cardinality(RowsFrom(d)) = 1
                    /\ \A r \in RowsFrom(d) :
                          /\ Len(durable.nodes[r].options) = Len(d.options)
                          /\ \A i \in 1..Len(d.options) :
                                /\ durable.nodes[r].options[i].text = d.options[i].text
                                /\ \E c \in RowsFrom(d.options[i].nextNode) :
                                      durable.nodes[c].id =
                                          durable.nodes[r].options[i].node_id

\* C11 witness: a root with two options to terminal children, persisted as one
\* root and two endings that the root's entries name in input order.
C11_Witness ==
    /\ Returned
    /\ outcome = "ok"
    /\ ~story_structure.rootNode.isEnding
    /\ Len(story_structure.rootNode.options) = 2
    /\ Cardinality(CommittedNodes) = 3
    /\ \E r \in CommittedNodes :
          /\ durable.nodes[r].is_root
          /\ Len(durable.nodes[r].options) = 2
          /\ durable.nodes[r].options[1].text = <<"a">>
          /\ durable.nodes[r].options[2].text = <<"b">>
          /\ durable.nodes[r].options[1].node_id = r + 1
          /\ durable.nodes[r].options[2].node_id = r + 2
          /\ durable.nodes[r + 1].is_ending /\ ~durable.nodes[r + 1].is_root
          /\ durable.nodes[r + 2].is_ending /\ ~durable.nodes[r + 2].is_root
          /\ durable.nodes[r + 1].content = <<"r", "a">>
          /\ durable.nodes[r + 2].content = <<"r", "b">>

\* The option entries of the committed rows of the story that name row i.
ReferencesTo(i) ==
    {<<r, k>> \in CommittedNodes \X (1..MaxNodes) :
        /\ k <= Len(durable.nodes[r].options)
        /\ durable.nodes[r].options[k].node_id = durable.nodes[i].id}

\* The committed rows of the story that the entries of row i name.
ChildRows(i) ==
    {j \in CommittedNodes :
        \E k \in 1..Len(durable.nodes[i].options) :
            durable.nodes[i].options[k].node_id = durable.nodes[j].id}

\* The rows of S and those reached from them in at most n steps.
RECURSIVE ReachedFrom(_, _)
ReachedFrom(S, n) ==
    IF n = 0 THEN S
    ELSE ReachedFrom(S \cup UNION {ChildRows(j) : j \in S}, n - 1)

CommittedRoots == {i \in CommittedNodes : durable.nodes[i].is_root}

\* C12: after a call that commits, the rows of the story form a tree rooted
\* at the is_root row: each other row is named by exactly one option entry,
\* the root by none, every entry names a row of the story, no row reaches
\* itself, and the root reaches every row.
C12_CommittedTree ==
    pc = "returned" =>
        /\ Returned
        /\ Cardinality(CommittedRoots) = 1
        /\ \A i \in CommittedNodes :
              /\ Cardinality(ReferencesTo(i)) = (IF durable.nodes[i].is_root THEN 0 ELSE 1)
              /\ \A k \in 1..Len(durable.nodes[i].options) :
                    \E j \in CommittedNodes :
                        durable.nodes[j].id = durable.nodes[i].options[k].node_id
              /\ i \notin ReachedFrom(ChildRows(i), Cardinality(CommittedNodes))
        /\ ReachedFrom(CommittedRoots, Cardinality(CommittedNodes)) = CommittedNodes

\* C12 witness: a story of three rows, committed next to an older story: the
\* root names one child, which names one child.
C12_Witness ==
    /\ Returned
    /\ Len(durable.nodes) = 4
    /\ \E r \in CommittedRoots :
          /\ Cardinality(ChildRows(r)) = 1
          /\ \A c \in ChildRows(r) : Cardinality(ChildRows(c)) = 1

\* The rows of the story staged so far in the session.
StagedNodes ==
    {i \in 1..Len(node_rows) : story_db # 0 /\ node_rows[i].story_id = story_db}

\* C13: at every point of a call, on every path, the first row staged for the
\* story is the one made from rootNode and is the only one with is_root set;
\* so it is among the rows committed.
C13_OneRoot ==
    /\ \A i \in StagedNodes :
          node_rows[i].is_root <=> (\A j \in StagedNodes : i <= j)
    /\ \A i \in StagedNodes :
          node_rows[i].is_root => node_rows[i].content = story_structure.rootNode.content
    /\ pc = "returned" =>
          /\ Cardinality(CommittedRoots) = 1
          /\ \A i \in CommittedNodes :
                durable.nodes[i].is_root <=>
                    durable.nodes[i].content = story_structure.rootNode.content

\* C13 witness: a story of a root and two rows made for nextNodes, committed.
C13_Witness ==
    /\ Returned
    /\ outcome = "ok"
    /\ Cardinality(CommittedNodes) = 3
    /\ Cardinality(CommittedRoots) = 1
    /\ \E i \in CommittedNodes : ~durable.nodes[i].is_root /\ durable.nodes[i].options # <<>>

\* The Story row of the call is staged, with the title of the description.
StoryStaged ==
    /\ story_db \in 1..Len(story_rows)
    /\ story_rows[story_db].title = story_structure.title
    /\ story_rows[story_db].session_id = session_id

\* Every description that is to be persisted has its row staged, with its
\* options list final, and no call of _process_story_node is still running.
TreeStaged ==
    /\ stack = <<>>
    /\ Cardinality(StagedNodes) = Len(Processed)
    /\ \A p \in 1..Len(Processed) :
          \E i \in StagedNodes :
              /\ node_rows[i].content = Processed[p].content
              /\ Len(node_rows[i].options) =
                     (IF Processed[p].isEnding THEN 0 ELSE Len(Processed[p].options))

\* C14: the committed rows change only in one step of a run, the commit,
\* which takes place once, when the Story row and every node of the tree are
\* staged with their options final, and makes exactly the staged rows
\* durable; a run that a persistence failure ends has committed nothing.
C14_CommitOnceAtEnd ==
    /\ [](commits \in {0, 1})
    /\ []((pc = "raised" \/ commits = 0) => (commits = 0 /\ CommittedNodes = {}))
    /\ [][(commits' # commits \/ durable' # durable) =>
             /\ commits = 0 /\ commits' = 1
             /\ StoryStaged
             /\ TreeStaged
             /\ durable' = [stories |-> story_rows, nodes |-> node_rows]]_vars

\* C14 witness: the commit of a story of three rows, two of them with options.
C14_Witness ==
    /\ Returned
    /\ TreeStaged
    /\ Cardinality(CommittedNodes) = 3
    /\ Cardinality({i \in CommittedNodes : durable.nodes[i].options # <<>>}) = 2

\* C15: every row persisted by generate_story with is_winning_ending set has
\* is_ending set, for schema-valid answers and for fallback stories.
C15_WinningIsEnding ==
    /\ \A i \in StagedNodes : node_rows[i].is_winning_ending => node_rows[i].is_ending
    /\ \A i \in CommittedNodes :
          durable.nodes[i].is_winning_ending => durable.nodes[i].is_ending

\* The frames of the calls of _process_story_node that are running.
Frames == {stack[f] : f \in 1..Len(stack)}

\* Some staged row has the id n.
Staged(n) == \E j \in 1..Len(node_rows) : node_rows[j].id = n

\* C16: at every state of the persistence, every node_id in the options of a
\* staged row, and in the list a running call is building, is the id of a row
\* staged before; a row whose call is running has no options yet; an entry
\* names a row whose own call has returned; and a row that has options has
\* one entry for each option of its description.
C16_OnlyBackReferences ==
    /\ \A i \in StagedNodes :
          /\ \A k \in 1..Len(node_rows[i].options) :
                /\ Staged(node_rows[i].options[k].node_id)
                /\ node_rows[i].options[k].node_id > node_rows[i].id
          /\ (\E f \in Frames : f.node_id = node_rows[i].id) => node_rows[i].options = <<>>
    /\ \A f \in Frames :
          /\ Staged(f.node_id)
          /\ \A k \in 1..Len(f.options_list) :
                /\ Staged(f.options_list[k].node_id)
                /\ f.options_list[k].node_id > f.node_id
                /\ \A g \in Frames : g.node_id # f.options_list[k].node_id
    /\ \A i \in StagedNodes :
          /\ \A k \in 1..Len(node_rows[i].options) :
                \A g \in Frames : g.node_id # node_rows[i].options[k].node_id
          /\ node_rows[i].options # <<>> =>
                \E p \in 1..Len(Processed) :
                    /\ Processed[p].content = node_rows[i].content
                    /\ Len(Processed[p].options) = Len(node_rows[i].options)

\* C16 witness: a child has been given its options while the call of its
\* parent is still running and holds the entry that names the child.
C16_Witness ==
    /\ pc = "process"
    /\ Len(stack) = 1
    /\ Len(stack[1].options_list) = 1
    /\ node_rows[stack[1].options_list[1].node_id].options # <<>>
    /\ node_rows[stack[1].node_id].options = <<>>

\* Every description of the answer, persisted or not.
Described ==
    IF story_structure = None THEN <<>> ELSE Preorder(story_structure.rootNode)

\* C17: a row with is_ending set has no options, at every state and among the
\* committed rows, and no row is made from a nextNode of a description whose
\* isEnding is true.
C17_EndingHasNoOptions ==
    /\ \A i \in StagedNodes : node_rows[i].is_ending => node_rows[i].options = <<>>
    /\ \A i \in CommittedNodes : durable.nodes[i].is_ending => durable.nodes[i].options = <<>>
    /\ \A p \in 1..Len(Described) :
          Described[p].isEnding =>
              \A k \in 1..Len(Described[p].options) :
                  \A i \in StagedNodes :
                      node_rows[i].content # Described[p].options[k].nextNode.content

\* C17 witness: a schema-valid root with isEnding true and two options is
\* committed as a single row without options.
C17_Witness ==
    /\ Returned
    /\ outcome = "ok"
    /\ story_structure.rootNode.isEnding
    /\ Len(story_structure.rootNode.options) = 2
    /\ Cardinality(CommittedNodes) = 1
    /\ \A i \in CommittedNodes : durable.nodes[i].is_ending /\ durable.nodes[i].options = <<>>

(***************************************************************************)
(* Idempotence of _extract_json, checked under SpecExtract.                *)
(***************************************************************************)
\* C18: _extract_json applied to what _extract_json returned for a text
\* returns it again, and raises nothing.
C18_Idempotent ==
    pc = "again" =>
        /\ ~extract_result.again.raised
        /\ extract_result.again.val = extract_result.val

\* C18 witness: an object with a brace in its key is taken out of the noise
\* around it by the first call and returned whole by the second.
C18_Witness ==
    /\ pc = "again"
    /\ extract_result.val # text
    /\ Len(extract_result.val) < Len(text) - 1
    /\ \E k \in 2..Len(extract_result.val) - 1 : extract_result.val[k] \in {"{", "}"}
    /\ extract_result.again.val = extract_result.val

====
